---- MODULE Spec2Model ----
(***************************************************************************)
(* Model of the h3cellstore query bridge:                                  *)
(*   - AwaitableResultSet / ResultSet   (bamboo_h3/src/clickhouse.rs)      *)
(*   - Table, TableSetQuery, TableSet, find_tablesets                      *)
(*                                      (h3cpy_int/src/compacted_tables.rs)*)
(*   - ClickhouseConnection::has_data / fetch_next_window                  *)
(*                                      (h3cpy/src/clickhouse.rs)          *)
(* Strings that the code inspects character by character (table names,    *)
(* column names) are sequences of one-character strings.  Each part of the *)
(* program has its own specification: SpecAwaitable, Spec (ResultSet),     *)
(* SpecCodec, SpecDiscover, SpecPlanner, SpecWindow; the variables of the  *)
(* other parts stay at Unused.                                             *)
(***************************************************************************)
EXTENDS Integers, Sequences, FiniteSets, TLC

VARIABLES
    \* a bare AwaitableResultSet and the query task behind it
    awrs, awrs_outcome, awrs_awaits, awrs_log,
    \* a ResultSet, the query task behind it, and the calls made on it
    origin, column_data, query_duration, outcome, pool_awaits, log,
    \* Table::to_table_name / Table::parse
    table, full_table_name, name_origin, codec_pc, parsed,
    \* find_tablesets
    tablenames, tablesets, disc_pc,
    \* TableSet::build_select_query
    tableset, h3indexes, query, query_result,
    \* a SlidingH3Window, the database behind the connection, and the
    \* fetch_next_window calls made on the window
    sliding_h3_window, database, fetch_log

awVars == <<awrs, awrs_outcome, awrs_awaits, awrs_log>>
rsVars == <<origin, column_data, query_duration, outcome, pool_awaits, log>>
codecVars == <<table, full_table_name, name_origin, codec_pc, parsed>>
discVars == <<tablenames, tablesets, disc_pc>>
planVars == <<tableset, h3indexes, query, query_result>>
winVars == <<sliding_h3_window, database, fetch_log>>
vars == <<awVars, rsVars, codecVars, discVars, planVars, winVars>>

\* --------------------------------------------------------------- bounds

\* calls made on one AwaitableResultSet / ResultSet
MaxCalls == 4
\* rows of a column of a fetched batch
MaxRows == 2

\* ------------------------------------------------- Option, Result, Either

None == <<>>
Some(x) == <<x>>
IsSome(o) == o # <<>>
Unwrap(o) == o[1]

Ok(v) == [ok |-> TRUE, val |-> v]
Err(e) == [ok |-> FALSE, err |-> e]

Left(v) == [tag |-> "Left", val |-> v]
Right(v) == [tag |-> "Right", val |-> v]

\* the value of a variable that the running specification does not use
Unused == "unused"

\* ------------------------------------------------------ batches, queries

ColNames == {"h3index", "v"}

\* a ColumnSet: column name -> length of its ColVec; all columns of one
\* batch have the same length
ColumnSets == UNION { { [c \in S |-> n] : n \in 0..MaxRows } : S \in SUBSET ColNames }

\* what the spawned query task resolves to when the pool awaits it
Outcomes ==
    { Ok(b) : b \in ColumnSets } \cup { Err("DatabaseError"), Err("TaskJoinFailed") }

\* Instant::elapsed at the time the await returns (milliseconds)
Durations == {0, 1, 1500}

\* ColumnSet::is_empty of the batch held by a bamboo_h3 ResultSet
ColumnSet_is_empty(cs) ==
    DOMAIN cs = {} \/ \A c \in DOMAIN cs : cs[c] = 0

\* -------------------------------------------------- AwaitableResultSet

\* AwaitableResultSet::new: the query is spawned, the handle is held
AwaitableResultSet_new == [handle |-> Some("JoinHandle")]

\* ClickhousePool::await_query on the handle of a task resolving to out
await_query(out) == out

\* wait_until_finished reading the handle without taking it
wait_until_finished_keeps_handle(aw, out, d) ==
    IF IsSome(aw.handle)
    THEN LET resultmap == await_query(out) IN
         [aw |-> aw,
          res |-> IF resultmap.ok THEN Ok(<<resultmap.val, d>>) ELSE resultmap,
          awaited |-> TRUE]
    ELSE [aw |-> aw,
          res |-> Err("resultset can only be awaited once"),
          awaited |-> FALSE]

\* AwaitableResultSet::wait_until_finished on aw, whose task resolves to
\* out and whose elapsed time is d:
\*   aw      the object afterwards
\*   res     the returned PyResult
\*   awaited whether the pool was awaited
wait_until_finished(aw, out, d) ==
    IF IsSome(aw.handle)
    THEN LET resultmap == await_query(out) IN
         [aw |-> [aw EXCEPT !.handle = None],
          res |-> IF resultmap.ok THEN Ok(<<resultmap.val, d>>) ELSE resultmap,
          awaited |-> TRUE]
    ELSE [aw |-> aw,
          res |-> Err("resultset can only be awaited once"),
          awaited |-> FALSE]

\* ------------------------------------------------------------ ResultSet

\* await_column_data that takes a missing handle for a finished query
await_column_data_ignores_none(cd, qd, out, d) ==
    IF cd.tag = "Right"
    THEN IF IsSome(cd.val)
         THEN LET w == wait_until_finished(Unwrap(cd.val), out, d) IN
              IF w.res.ok
              THEN [cd |-> Left(Some(w.res.val[1])), qd |-> Some(w.res.val[2]),
                    res |-> Ok("unit"), awaited |-> w.awaited]
              ELSE [cd |-> Right(None), qd |-> qd,
                    res |-> w.res, awaited |-> w.awaited]
         ELSE [cd |-> cd, qd |-> qd, res |-> Ok("unit"), awaited |-> FALSE]
    ELSE [cd |-> cd, qd |-> qd, res |-> Ok("unit"), awaited |-> FALSE]

\* await_column_data that records the duration but not the batch
await_column_data_keeps_variant(cd, qd, out, d) ==
    IF cd.tag = "Right"
    THEN IF IsSome(cd.val)
         THEN LET w == wait_until_finished(Unwrap(cd.val), out, d) IN
              IF w.res.ok
              THEN [cd |-> Right(None), qd |-> Some(w.res.val[2]),
                    res |-> Ok("unit"), awaited |-> w.awaited]
              ELSE [cd |-> Right(None), qd |-> qd,
                    res |-> w.res, awaited |-> w.awaited]
         ELSE [cd |-> cd, qd |-> qd,
               res |-> Err("Got None for AwaitableResultSet"), awaited |-> FALSE]
    ELSE [cd |-> cd, qd |-> qd, res |-> Ok("unit"), awaited |-> FALSE]

\* ResultSet::await_column_data on payload cd and duration qd
await_column_data(cd, qd, out, d) ==
    IF cd.tag = "Right"
    THEN IF IsSome(cd.val)
         THEN LET w == wait_until_finished(Unwrap(cd.val), out, d) IN
              IF w.res.ok
              THEN [cd |-> Left(Some(w.res.val[1])), qd |-> Some(w.res.val[2]),
                    res |-> Ok("unit"), awaited |-> w.awaited]
              ELSE [cd |-> Right(None), qd |-> qd,
                    res |-> w.res, awaited |-> w.awaited]
         ELSE [cd |-> cd, qd |-> qd,
               res |-> Err("Got None for AwaitableResultSet"), awaited |-> FALSE]
    ELSE [cd |-> cd, qd |-> qd, res |-> Ok("unit"), awaited |-> FALSE]

\* to_columnset returning a copy of the batch and keeping it
to_columnset_clones(cd, qd, out, d) ==
    LET a == await_column_data(cd, qd, out, d) IN
    IF ~a.res.ok THEN a
    ELSE IF a.cd.tag = "Left"
         THEN [a EXCEPT !.res = Ok(a.cd.val)]
         ELSE [a EXCEPT !.res = Ok(None)]

\* ResultSet::to_columnset
to_columnset(cd, qd, out, d) ==
    LET a == await_column_data(cd, qd, out, d) IN
    IF ~a.res.ok THEN a
    ELSE IF a.cd.tag = "Left"
         THEN [a EXCEPT !.cd = Left(None), !.res = Ok(a.cd.val)]
         ELSE [a EXCEPT !.res = Ok(None)]

\* get_empty reporting a taken batch as not empty
get_empty_taken_is_false(cd, qd, out, d) ==
    LET a == await_column_data(cd, qd, out, d) IN
    IF ~a.res.ok THEN a
    ELSE IF a.cd.tag = "Left"
         THEN [a EXCEPT !.res =
                  Ok(IF IsSome(a.cd.val) THEN ColumnSet_is_empty(Unwrap(a.cd.val))
                     ELSE FALSE)]
         ELSE [a EXCEPT !.res = Err("awaiting failed")]

\* ResultSet::get_empty
get_empty(cd, qd, out, d) ==
    LET a == await_column_data(cd, qd, out, d) IN
    IF ~a.res.ok THEN a
    ELSE IF a.cd.tag = "Left"
         THEN [a EXCEPT !.res =
                  Ok(IF IsSome(a.cd.val) THEN ColumnSet_is_empty(Unwrap(a.cd.val))
                     ELSE TRUE)]
         ELSE [a EXCEPT !.res = Err("awaiting failed")]

\* ResultSet::get_query_duration_secs (the value is kept in milliseconds)
get_query_duration_secs(cd, qd, out, d) ==
    LET a == await_column_data(cd, qd, out, d) IN
    IF ~a.res.ok THEN a
    ELSE [a EXCEPT !.res = Ok(a.qd)]

\* ---------------------------------------------------------------- idle

AwIdle ==
    /\ awrs = Unused /\ awrs_outcome = Unused
    /\ awrs_awaits = 0 /\ awrs_log = <<>>
RsIdle ==
    /\ origin = Unused
    /\ column_data = Unused /\ query_duration = Unused /\ outcome = Unused
    /\ pool_awaits = 0 /\ log = <<>>
CodecIdle ==
    /\ table = Unused /\ full_table_name = Unused
    /\ name_origin = Unused /\ codec_pc = Unused /\ parsed = Unused
DiscIdle == tablenames = Unused /\ tablesets = Unused /\ disc_pc = Unused
PlanIdle ==
    /\ tableset = Unused /\ h3indexes = Unused
    /\ query = Unused /\ query_result = Unused
WinIdle ==
    /\ sliding_h3_window = Unused /\ database = Unused /\ fetch_log = <<>>

\* ------------------------------------- specification: AwaitableResultSet

InitAwaitable ==
    /\ awrs = AwaitableResultSet_new
    /\ awrs_outcome \in Outcomes
    /\ awrs_awaits = 0
    /\ awrs_log = <<>>
    /\ RsIdle /\ CodecIdle /\ DiscIdle /\ PlanIdle /\ WinIdle

WaitUntilFinished ==
    /\ Len(awrs_log) < MaxCalls
    /\ \E d \in Durations :
         LET w == wait_until_finished(awrs, awrs_outcome, d) IN
         /\ awrs' = w.aw
         /\ awrs_awaits' = awrs_awaits + (IF w.awaited THEN 1 ELSE 0)
         /\ awrs_log' = Append(awrs_log, w.res)
    /\ UNCHANGED <<awrs_outcome, rsVars, codecVars, discVars, planVars, winVars>>

NextAwaitable == WaitUntilFinished

SpecAwaitable == InitAwaitable /\ [][NextAwaitable]_vars

HandleConsumed == Err("resultset can only be awaited once")

\* C1: the first wait_until_finished call takes the handle and awaits it, and
\* its result is the task's (Ok exactly when the task succeeded); every later
\* call returns the 'resultset can only be awaited once' error and the pool is
\* not awaited again, whether the first call succeeded or failed.
C1_SingleConsumption ==
    /\ Len(awrs_log) = 0 => (IsSome(awrs.handle) /\ awrs_awaits = 0)
    /\ Len(awrs_log) >= 1 =>
          /\ awrs.handle = None
          /\ awrs_awaits = 1
          /\ awrs_log[1].ok = awrs_outcome.ok
          /\ awrs_log[1] # HandleConsumed
    /\ \A i \in 2..Len(awrs_log) : awrs_log[i] = HandleConsumed

\* a first call that failed, followed by a second call
C1_Witness ==
    /\ Len(awrs_log) >= 2
    /\ ~awrs_log[1].ok
    /\ awrs_log[2] = HandleConsumed

\* -------------------------------------------------- specification: ResultSet

\* From<AwaitableResultSet> for ResultSet (query_fetch, tableset_fetch) and
\* From<HashMap<String, ColVec>> for ResultSet
Init ==
    /\ outcome \in Outcomes
    /\ \/ /\ origin = "AwaitableResultSet"
          /\ column_data = Right(Some(AwaitableResultSet_new))
       \/ /\ origin = "HashMap"
          /\ outcome.ok
          /\ column_data = Left(Some(outcome.val))
    /\ query_duration = None
    /\ pool_awaits = 0
    /\ log = <<>>
    /\ AwIdle /\ CodecIdle /\ DiscIdle /\ PlanIdle /\ WinIdle

Call(op, r) ==
    /\ column_data' = r.cd
    /\ query_duration' = r.qd
    /\ pool_awaits' = pool_awaits + (IF r.awaited THEN 1 ELSE 0)
    /\ log' = Append(log, [op |-> op, res |-> r.res, awaited |-> r.awaited])
    /\ UNCHANGED <<origin, outcome, awVars, codecVars, discVars, planVars, winVars>>

ToColumnset ==
    /\ Len(log) < MaxCalls
    /\ \E d \in Durations :
         Call("to_columnset", to_columnset(column_data, query_duration, outcome, d))

GetEmpty ==
    /\ Len(log) < MaxCalls
    /\ \E d \in Durations :
         Call("get_empty", get_empty(column_data, query_duration, outcome, d))

GetQueryDurationSecs ==
    /\ Len(log) < MaxCalls
    /\ \E d \in Durations :
         Call("get_query_duration_secs",
              get_query_duration_secs(column_data, query_duration, outcome, d))

Next == ToColumnset \/ GetEmpty \/ GetQueryDurationSecs

Spec == Init /\ [][Next]_vars

\* C2 as claimed: a ResultSet built from an AwaitableResultSet holds the handle
\* variant before the first blocking accessor call and the batch variant after
\* it, and the handle is awaited at most once.
C2_TransitionOnFirstCall ==
    origin = "AwaitableResultSet" =>
        /\ Len(log) = 0 => column_data.tag = "Right"
        /\ Len(log) >= 1 => column_data.tag = "Left"
        /\ pool_awaits <= 1

\* C2 as amended: the handle is awaited by the first blocking accessor call
\* and by no other; after that call the payload is the batch variant exactly
\* when the awaited query succeeded, and stays so; when the query failed the
\* payload stays the handle variant with the handle removed.
C2_OneShotTransition ==
    origin = "AwaitableResultSet" =>
        /\ Len(log) = 0 =>
              (column_data = Right(Some(AwaitableResultSet_new)) /\ pool_awaits = 0)
        /\ Len(log) >= 1 =>
              /\ pool_awaits = 1
              /\ column_data.tag = "Left" <=> outcome.ok
              /\ column_data.tag = "Right" => column_data.val = None
        /\ \A i \in 1..Len(log) : log[i].awaited <=> i = 1

\* the payload became the batch on the first call and further calls followed
C2_Witness ==
    /\ origin = "AwaitableResultSet"
    /\ Len(log) >= 3
    /\ column_data.tag = "Left"
    /\ pool_awaits = 1

\* a batch without rows: no columns, or only columns of length zero
HasNoRows(b) == \A c \in DOMAIN b : b[c] = 0

\* the batch was handed out by a to_columnset call before call i
TakenBefore(i) ==
    \E j \in 1..(i - 1) : log[j].op = "to_columnset" /\ log[j].res.ok

\* C3 as claimed: whenever get_empty returns a value, it is true exactly when
\* the batch produced by the query has no columns or only empty columns.
C3_EmptyIffBatchEmpty ==
    \A i \in 1..Len(log) :
        (log[i].op = "get_empty" /\ log[i].res.ok) =>
            (log[i].res.val <=> HasNoRows(outcome.val))

\* C3 as amended: whenever get_empty returns a value, it is true exactly when
\* an earlier to_columnset call has taken the batch, or the batch produced by
\* the query has no columns or only empty columns.
C3_EmptyIffTakenOrBatchEmpty ==
    \A i \in 1..Len(log) :
        (log[i].op = "get_empty" /\ log[i].res.ok) =>
            (log[i].res.val <=> (TakenBefore(i) \/ HasNoRows(outcome.val)))

\* get_empty answers true for a batch with rows that to_columnset has taken,
\* and false for the same batch before it was taken
C3_Witness ==
    /\ Len(log) >= 3
    /\ outcome.ok
    /\ ~HasNoRows(outcome.val)
    /\ log[1].op = "get_empty" /\ log[1].res = Ok(FALSE)
    /\ log[2].op = "to_columnset" /\ log[2].res.ok
    /\ log[3].op = "get_empty" /\ log[3].res = Ok(TRUE)

\* no to_columnset call before call i
FirstToColumnset(i) == \A j \in 1..(i - 1) : log[j].op # "to_columnset"

\* C4: when the query succeeds, the first to_columnset call returns the batch
\* the query produced; every later to_columnset call returns Ok(None) and
\* awaits nothing.
C4_OwnershipTransfer ==
    outcome.ok =>
        \A i \in 1..Len(log) :
            log[i].op = "to_columnset" =>
                IF FirstToColumnset(i)
                THEN log[i].res = Ok(Some(outcome.val))
                ELSE log[i].res = Ok(None) /\ ~log[i].awaited

\* to_columnset was called twice on a ResultSet whose query succeeded
C4_Witness ==
    /\ origin = "AwaitableResultSet"
    /\ outcome.ok
    /\ \E i, j \in 1..Len(log) :
          i < j /\ log[i].op = "to_columnset" /\ log[j].op = "to_columnset"

\* C17: when the first blocking accessor call on a ResultSet built from an
\* AwaitableResultSet fails because the query failed, the payload is the
\* handle variant without a handle and query_duration is None from then on,
\* that call is the only one that awaits, and every later blocking accessor
\* call returns an error: no call returns a value.
C17_FailedAwaitIsSticky ==
    (origin = "AwaitableResultSet" /\ Len(log) >= 1 /\ ~log[1].res.ok) =>
        /\ column_data = Right(None)
        /\ query_duration = None
        /\ pool_awaits = 1
        /\ log[1].awaited
        /\ log[1].res = outcome
        /\ \A i \in 2..Len(log) : ~log[i].res.ok /\ ~log[i].awaited

\* the query failed, and each of the three accessors was called after the
\* call that awaited it
C17_Witness ==
    /\ origin = "AwaitableResultSet"
    /\ ~outcome.ok
    /\ Len(log) >= 4
    /\ \A op \in {"to_columnset", "get_empty", "get_query_duration_secs"} :
          \E i \in 2..Len(log) : log[i].op = op

\* ------------------------------------------------- Table, TableSpec, RE_TABLE

\* characters of a basename given to the codec
MaxBasenameLen == 3

LowerCase == {"a", "b", "c", "d", "e", "f", "g", "h", "i", "j", "k", "l", "m", "n", "o", "p", "q", "r", "s", "t", "u", "v", "w", "x", "y", "z"}
UpperCase == {"A", "B", "C", "D", "E", "F", "G", "H", "I", "J", "K", "L", "M", "N", "O", "P", "Q", "R", "S", "T", "U", "V", "W", "X", "Y", "Z"}
\* [a-zA-Z]
Letters == LowerCase \cup UpperCase
\* [0-9], in order
DigitChars == <<"0", "1", "2", "3", "4", "5", "6", "7", "8", "9">>
Digits == { DigitChars[i] : i \in 1..10 }
\* [a-zA-Z_0-9]
WordChars == Letters \cup Digits \cup {"_"}

DigitValue(c) == CHOOSE n \in 0..9 : DigitChars[n + 1] = c

STR_base == <<"b", "a", "s", "e">>
STR_compacted == <<"c", "o", "m", "p", "a", "c", "t", "e", "d">>

\* format!("{:02}", r) of a u8
Format02(r) ==
    IF r < 10 THEN <<"0", DigitChars[r + 1]>>
    ELSE IF r < 100 THEN <<DigitChars[(r \div 10) + 1], DigitChars[(r % 10) + 1]>>
    ELSE <<DigitChars[(r \div 100) + 1], DigitChars[((r \div 10) % 10) + 1],
           DigitChars[(r % 10) + 1]>>

\* Table::to_table_name
to_table_name(t) ==
    t.basename \o <<"_">> \o Format02(t.spec.h3_resolution) \o <<"_">>
        \o (IF t.spec.is_compacted THEN STR_compacted ELSE STR_base)

\* the first capture group of RE_TABLE, [a-zA-Z].[a-zA-Z_0-9]+
RE_TABLE_basename(g) ==
    /\ Len(g) >= 3
    /\ g[1] \in Letters
    /\ g[2] # "\n"
    /\ \A i \in 3..Len(g) : g[i] \in WordChars

\* RE_TABLE.captures(name) with the suffix suf: the name is
\* <group 1> _ <two digits> _ <suf>; the anchors ^ and $ fix the split
RE_TABLE_captures_with(name, suf) ==
    LET n == Len(name)
        k == Len(suf)
    IN IF /\ n >= k + 4
          /\ SubSeq(name, n - k + 1, n) = suf
          /\ name[n - k] = "_"
          /\ name[n - k - 1] \in Digits
          /\ name[n - k - 2] \in Digits
          /\ name[n - k - 3] = "_"
          /\ RE_TABLE_basename(SubSeq(name, 1, n - k - 4))
       THEN Some(<<SubSeq(name, 1, n - k - 4), SubSeq(name, n - k - 2, n - k - 1), suf>>)
       ELSE None

\* RE_TABLE.captures(name): ^([a-zA-Z].[a-zA-Z_0-9]+)_([0-9]{2})_(base|compacted)$
RE_TABLE_captures(name) ==
    IF IsSome(RE_TABLE_captures_with(name, STR_base))
    THEN RE_TABLE_captures_with(name, STR_base)
    ELSE RE_TABLE_captures_with(name, STR_compacted)

\* str::parse::<u8> of the two digits of capture group 2
parse_u8(g) == 10 * DigitValue(g[1]) + DigitValue(g[2])

\* Table::parse
parse(full_name) ==
    LET captures == RE_TABLE_captures(full_name) IN
    IF IsSome(captures)
    THEN Some([basename |-> Unwrap(captures)[1],
               spec |-> [h3_resolution |-> parse_u8(Unwrap(captures)[2]),
                         is_compacted |-> Unwrap(captures)[3] = STR_compacted,
                         is_intermediate |-> FALSE]])
    ELSE None

\* ------------------------------------------------ specification: Table codec

\* H3 resolutions
Resolutions == 0..15

BasenameChars == {"a", "Z", "_", "7", "-"}

RECURSIVE StringsUpTo(_, _)
StringsUpTo(chars, n) ==
    IF n = 0 THEN {<<>>}
    ELSE LET shorter == StringsUpTo(chars, n - 1) IN
         shorter \cup { Append(s, c) : s \in shorter, c \in chars }

STR_water == <<"w", "a", "t", "e", "r">>

\* basenames ending in _NN_base or _NN_compacted
NestedBasenames ==
    { b \o <<"_", "0", "3", "_">> \o suf :
        b \in {<<"a", "b">>, STR_water}, suf \in {STR_base, STR_compacted} }

BasenameInputs ==
    (StringsUpTo(BasenameChars, MaxBasenameLen) \ {<<>>})
        \cup NestedBasenames \cup {STR_water}

TableInputs ==
    [basename : BasenameInputs,
     spec : [h3_resolution : Resolutions, is_compacted : BOOLEAN,
             is_intermediate : BOOLEAN]]

ResolutionFields ==
    { <<"0", "0">>, <<"0", "5">>, <<"1", "5">>, <<"1", "6">>, <<"9", "9">>,
      <<"5">>, <<"a", "5">> }

SuffixFields == { STR_base, STR_compacted, <<"o", "t", "h", "e", "r">>, <<"b", "a", "s", "e", "_">> }

\* names as a database may list them
NameInputs ==
    { b \o <<"_">> \o r \o <<"_">> \o suf :
        b \in BasenameInputs, r \in ResolutionFields, suf \in SuffixFields }
    \cup { <<"c", "o", "l", "u", "m", "n", "s">>, STR_water, STR_water \o <<"_", "0", "5">> }

InitCodec ==
    /\ \/ /\ name_origin = "table"
          /\ table \in TableInputs
          /\ full_table_name = <<>>
          /\ codec_pc = "table"
       \/ /\ name_origin = "input"
          /\ table = Unused
          /\ full_table_name \in NameInputs
          /\ codec_pc = "name"
    /\ parsed = None
    /\ AwIdle /\ RsIdle /\ DiscIdle /\ PlanIdle /\ WinIdle

ToTableName ==
    /\ codec_pc = "table"
    /\ full_table_name' = to_table_name(table)
    /\ codec_pc' = "name"
    /\ UNCHANGED <<table, name_origin, parsed, awVars, rsVars, discVars, planVars, winVars>>

Parse ==
    /\ codec_pc = "name"
    /\ parsed' = parse(full_table_name)
    /\ codec_pc' = "parsed"
    /\ UNCHANGED <<table, name_origin, full_table_name, awVars, rsVars, discVars, planVars, winVars>>

NextCodec == ToTableName \/ Parse

SpecCodec == InitCodec /\ [][NextCodec]_vars

\* the basename grammar of a table name, [a-zA-Z][a-zA-Z_0-9]+
GrammarBasename(b) ==
    /\ Len(b) >= 2
    /\ b[1] \in Letters
    /\ \A i \in 2..Len(b) : b[i] \in WordChars

\* the table-name grammar ^[a-zA-Z][a-zA-Z_0-9]+_(0\d|1[0-5])_(base|compacted)$
GrammarName(name) ==
    \E suf \in {STR_base, STR_compacted} :
        LET n == Len(name)
            k == Len(suf)
        IN /\ n >= k + 4
           /\ SubSeq(name, n - k + 1, n) = suf
           /\ name[n - k] = "_"
           /\ \/ name[n - k - 2] = "0" /\ name[n - k - 1] \in Digits
              \/ name[n - k - 2] = "1" /\ name[n - k - 1] \in {"0", "1", "2", "3", "4", "5"}
           /\ name[n - k - 3] = "_"
           /\ GrammarBasename(SubSeq(name, 1, n - k - 4))

\* C5: for a table that is not intermediate, with a basename of the grammar
\* [a-zA-Z][a-zA-Z_0-9]+ and a resolution in 0..15, parsing the name that
\* to_table_name gives returns Some of the same table.
C5_RoundTrip ==
    ( /\ codec_pc = "parsed"
      /\ name_origin = "table"
      /\ ~table.spec.is_intermediate
      /\ GrammarBasename(table.basename)
      /\ table.spec.h3_resolution \in 0..15 )
        => parsed = Some(table)

\* C6: parse returns Some only for a name of the table-name grammar, and the
\* table it returns has a resolution in 0..15.
C6_ParseOnlyGrammar ==
    (codec_pc = "parsed" /\ IsSome(parsed)) =>
        /\ GrammarName(full_table_name)
        /\ Unwrap(parsed).spec.h3_resolution \in 0..15

\* ------------------------------------------------ TableSet, find_tablesets

\* names in the list given to find_tablesets
MaxNames == 4

\* TableSet::new
TableSet_new(basename) ==
    [basename |-> basename,
     compacted_h3_resolutions |-> {},
     base_h3_resolutions |-> {},
     columns |-> <<>>]

\* TableSet::compacted_tables (a Vec in the order of a HashSet: kept as a set)
compacted_tables(ts) ==
    { [basename |-> ts.basename,
       spec |-> [h3_resolution |-> cr, is_compacted |-> TRUE, is_intermediate |-> FALSE]] :
        cr \in ts.compacted_h3_resolutions }

\* TableSet::base_tables
base_tables(ts) ==
    { [basename |-> ts.basename,
       spec |-> [h3_resolution |-> br, is_compacted |-> FALSE, is_intermediate |-> FALSE]] :
        br \in ts.base_h3_resolutions }

\* TableSet::tables
tables(ts) == base_tables(ts) \cup compacted_tables(ts)

\* HashMap::entry(key).or_insert_with(default): the map with the entry present
entry_or_insert_with(map, key, default) ==
    IF key \in DOMAIN map THEN map
    ELSE [k \in DOMAIN map \cup {key} |-> IF k = key THEN default ELSE map[k]]

\* HashMap::insert(key, value), replacing what the key held
map_insert(map, key, value) ==
    [k \in DOMAIN map \cup {key} |-> IF k = key THEN value ELSE map[k]]

\* the body of the loop of find_tablesets replacing the entry of the basename
\* by a new TableSet that holds only the last table
find_tablesets_step_replaces(map, tablename) ==
    LET t == parse(tablename) IN
    IF IsSome(t)
    THEN LET table_ == Unwrap(t)
             fresh == TableSet_new(table_.basename)
         IN map_insert(map, table_.basename,
                IF table_.spec.is_compacted
                THEN [fresh EXCEPT !.compacted_h3_resolutions = {table_.spec.h3_resolution}]
                ELSE [fresh EXCEPT !.base_h3_resolutions = {table_.spec.h3_resolution}])
    ELSE map

\* the body of the loop of find_tablesets for one tablename
find_tablesets_step(map, tablename) ==
    LET t == parse(tablename) IN
    IF IsSome(t)
    THEN LET table_ == Unwrap(t)
             with_entry == entry_or_insert_with(map, table_.basename,
                                                TableSet_new(table_.basename))
             ts == with_entry[table_.basename]
         IN IF table_.spec.is_compacted
            THEN [with_entry EXCEPT ![table_.basename] =
                     [ts EXCEPT !.compacted_h3_resolutions = @ \cup {table_.spec.h3_resolution}]]
            ELSE [with_entry EXCEPT ![table_.basename] =
                     [ts EXCEPT !.base_h3_resolutions = @ \cup {table_.spec.h3_resolution}]]
    ELSE map

RECURSIVE find_tablesets_from(_, _, _)
find_tablesets_from(names, i, map) ==
    IF i > Len(names) THEN map
    ELSE find_tablesets_from(names, i + 1, find_tablesets_step(map, names[i]))

\* find_tablesets; HashMap::default() is the function with the empty domain
find_tablesets(names) == find_tablesets_from(names, 1, <<>>)

\* ------------------------------------------- specification: find_tablesets

STR_els == <<"e", "l", "s">>

\* names a database lists: tables of two tablesets, and names that are not
\* table names
TableNamePool ==
    { to_table_name([basename |-> b,
                     spec |-> [h3_resolution |-> r, is_compacted |-> c,
                               is_intermediate |-> FALSE]]) :
        b \in {STR_water}, r \in {0, 1}, c \in BOOLEAN }
    \cup { STR_els \o <<"_", "0", "6", "_">> \o STR_base,
           STR_els \o <<"_", "0", "6", "_">> \o STR_compacted,
           <<"c", "o", "l", "u", "m", "n", "s">>,
           STR_water \o <<"_", "1", "_">> \o STR_base }

RECURSIVE SeqsUpTo(_, _)
SeqsUpTo(S, n) ==
    IF n = 0 THEN {<<>>}
    ELSE LET shorter == SeqsUpTo(S, n - 1) IN
         shorter \cup { Append(s, x) : s \in shorter, x \in S }

InitDiscover ==
    /\ tablenames \in SeqsUpTo(TableNamePool, MaxNames)
    /\ tablesets = <<>>
    /\ disc_pc = "names"
    /\ AwIdle /\ RsIdle /\ CodecIdle /\ PlanIdle /\ WinIdle

FindTablesets ==
    /\ disc_pc = "names"
    /\ tablesets' = find_tablesets(tablenames)
    /\ disc_pc' = "found"
    /\ UNCHANGED <<tablenames, awVars, rsVars, codecVars, planVars, winVars>>

NextDiscover == FindTablesets

SpecDiscover == InitDiscover /\ [][NextDiscover]_vars

\* the tables that the names of a set parse to
ParsedTables(names) == { Unwrap(parse(n)) : n \in { x \in names : IsSome(parse(x)) } }

\* the resolutions of the tables of basename b and kind compacted among T
ResolutionsOf(T, b, compacted) ==
    { t.spec.h3_resolution :
        t \in { u \in T : u.basename = b /\ u.spec.is_compacted = compacted } }

\* C7: find_tablesets returns one TableSet per basename of a parseable name,
\* keyed by that basename; a resolution is in its base (compacted) set exactly
\* when the input holds a parseable name of that basename, resolution and
\* kind; the result is a function of the set of names alone, so neither the
\* order nor a repetition of names changes it.
C7_DiscoveryPartition ==
    disc_pc = "found" =>
        LET T == ParsedTables({ tablenames[i] : i \in 1..Len(tablenames) }) IN
        /\ DOMAIN tablesets = { t.basename : t \in T }
        /\ \A b \in DOMAIN tablesets :
              /\ tablesets[b].basename = b
              /\ tablesets[b].base_h3_resolutions = ResolutionsOf(T, b, FALSE)
              /\ tablesets[b].compacted_h3_resolutions = ResolutionsOf(T, b, TRUE)

\* two tablesets were found from a list that also holds a name that is not a
\* table name; one tableset has a base and a compacted table
C7_Witness ==
    /\ disc_pc = "found"
    /\ Cardinality(DOMAIN tablesets) = 2
    /\ \E i \in 1..Len(tablenames) : parse(tablenames[i]) = None
    /\ \E b \in DOMAIN tablesets :
          /\ tablesets[b].base_h3_resolutions # {}
          /\ tablesets[b].compacted_h3_resolutions # {}

\* ------------------------------------------------------ H3 cells (h3ron)

\* the coarsest H3 resolution
H3_MIN_RESOLUTION == 0

\* cells in the list given to the planner
MaxCells == 2

\* An H3 index: valid or not; a valid one is the path of child digits from
\* its base cell, one digit per resolution step.
ChildDigits == {0, 1}

\* the resolutions of the cells and tables given to the planner
PlannerResolutions == H3_MIN_RESOLUTION..2

\* the valid cells of these resolutions
ValidCells ==
    { [valid |-> TRUE, digits |-> d] :
        d \in { x \in StringsUpTo(ChildDigits, 2) : Len(x) \in PlannerResolutions } }
InvalidIndex == [valid |-> FALSE, digits |-> <<>>]

\* Index::from(u64) and Index::h3index(): the index wraps the u64
Index_from(h3index) == h3index
Index_h3index(index) == index

\* check_index_valid
check_index_valid(index) == IF index.valid THEN Ok("unit") ELSE Err(<<"InvalidH3Index">>)

\* Index::resolution
Index_resolution(index) == Len(index.digits)

\* Index::get_parent(r), for r up to the resolution of the index
Index_get_parent(index, r) == [index EXCEPT !.digits = SubSeq(index.digits, 1, r)]

\* ------------------------------------------------------- TableSetQuery

\* An Error of the planner is the name of its variant followed by the
\* variant's fields.

AutoGenerated == [kind |-> "AutoGenerated", s |-> <<>>]
TemplatedSelect(s) == [kind |-> "TemplatedSelect", s |-> s]

\* Query text is a sequence of tokens: a piece of text, or a value that was
\* put in (a table name, an array of h3indexes, a list of columns).
Text(v) == [t |-> "text", text |-> v, name |-> <<>>, h3indexes |-> {}, columns |-> {}]
TableToken(name) ==
    [t |-> "table", text |-> "", name |-> name, h3indexes |-> {}, columns |-> {}]
ArrayToken(h3set) ==
    [t |-> "array", text |-> "", name |-> <<>>, h3indexes |-> h3set, columns |-> {}]
ColumnsToken(cols) ==
    [t |-> "columns", text |-> "", name |-> <<>>, h3indexes |-> {}, columns |-> cols]

PLACEHOLDER_table == Text("<[table]>")
PLACEHOLDER_h3indexes == Text("<[h3indexes]>")

\* str::contains
contains(s, token) == \E i \in 1..Len(s) : s[i] = token

\* str::replace: every occurrence
replace(s, from, to) == [i \in 1..Len(s) |-> IF s[i] = from THEN to ELSE s[i]]

\* validate looking for the placeholders in the other order
validate_h3indexes_first(q) ==
    IF q.kind = "AutoGenerated" THEN Ok("unit")
    ELSE IF ~contains(q.s, PLACEHOLDER_h3indexes)
         THEN Err(<<"MissingQueryPlaceholder", PLACEHOLDER_h3indexes.text>>)
    ELSE IF ~contains(q.s, PLACEHOLDER_table)
         THEN Err(<<"MissingQueryPlaceholder", PLACEHOLDER_table.text>>)
    ELSE Ok("unit")

\* TableSetQuery::validate
validate(q) ==
    IF q.kind = "AutoGenerated" THEN Ok("unit")
    ELSE IF ~contains(q.s, PLACEHOLDER_table)
         THEN Err(<<"MissingQueryPlaceholder", PLACEHOLDER_table.text>>)
    ELSE IF ~contains(q.s, PLACEHOLDER_h3indexes)
         THEN Err(<<"MissingQueryPlaceholder", PLACEHOLDER_h3indexes.text>>)
    ELSE Ok("unit")

\* ------------------------------------------- TableSet::build_select_query

\* the resolutions strictly below the target only
queryable_resolutions_strict(ts, h3_resolution) ==
    { r \in ts.base_h3_resolutions \cup ts.compacted_h3_resolutions : r < h3_resolution }

\* the keys of queryable_h3indexes: the resolutions of the tableset up to
\* the target resolution
queryable_resolutions(ts, h3_resolution) ==
    { r \in ts.base_h3_resolutions \cup ts.compacted_h3_resolutions : r <= h3_resolution }

RECURSIVE collect_from(_, _, _, _)
\* the loop over h3indexes, from element i on, filling queryable_h3indexes
collect_from(h3s, i, h3_resolution, queryable_h3indexes) ==
    IF i > Len(h3s) THEN Ok(queryable_h3indexes)
    ELSE LET index == Index_from(h3s[i]) IN
         IF ~check_index_valid(index).ok THEN check_index_valid(index)
         ELSE IF Index_resolution(index) # h3_resolution THEN Err(<<"MixedResolutions">>)
         ELSE collect_from(h3s, i + 1, h3_resolution,
                  [r \in DOMAIN queryable_h3indexes |->
                      queryable_h3indexes[r]
                          \cup {Index_h3index(Index_get_parent(index, r))}])

\* collecting that gives up first when the tableset has no table to query
collect_queryable_h3indexes_checks_tables_first(ts, h3s, h3_resolution) ==
    IF queryable_resolutions(ts, h3_resolution) = {} THEN Err(<<"NoQueryableTables">>)
    ELSE collect_from(h3s, 1, h3_resolution,
             [r \in queryable_resolutions(ts, h3_resolution) |-> {}])

\* queryable_h3indexes after the loop over h3indexes, or the error of the loop
collect_queryable_h3indexes(ts, h3s, h3_resolution) ==
    collect_from(h3s, 1, h3_resolution,
        [r \in queryable_resolutions(ts, h3_resolution) |-> {}])

\* str::starts_with on a column name
starts_with(name, prefix) ==
    Len(name) >= Len(prefix) /\ SubSeq(name, 1, Len(prefix)) = prefix

STR_h3index == <<"h", "3", "i", "n", "d", "e", "x">>

\* the columns of the tableset that are not h3index columns
selectable_columns(ts) ==
    { col_name \in DOMAIN ts.columns : ~starts_with(col_name, STR_h3index) }

\* the name of the table, reading the base table wherever the tableset has one
tablename_prefers_base(ts, r, h3_resolution) ==
    to_table_name([basename |-> ts.basename,
                   spec |-> [h3_resolution |-> r,
                             is_compacted |-> r \notin ts.base_h3_resolutions,
                             is_intermediate |-> FALSE]])

\* the name of the table queried at resolution r
tablename(ts, r, h3_resolution) ==
    to_table_name([basename |-> ts.basename,
                   spec |-> [h3_resolution |-> r,
                             is_compacted |-> r # h3_resolution,
                             is_intermediate |-> FALSE]])

\* one element of query_string_parts: the select of resolution r.  The array
\* of h3indexes is kept as the set it is built from (a HashSet has no order).
query_string_part(ts, q, r, h3_resolution, query_h3indexes) ==
    IF q.kind = "AutoGenerated"
    THEN << Text("select h3index, "), ColumnsToken(selectable_columns(ts)),
            Text(" from "), TableToken(tablename(ts, r, h3_resolution)),
            Text(" where h3index in "), ArrayToken(query_h3indexes) >>
    ELSE replace(replace(q.s, PLACEHOLDER_table,
                         TableToken(tablename(ts, r, h3_resolution))),
                 PLACEHOLDER_h3indexes, ArrayToken(query_h3indexes))

UNION_ALL == Text(" union all ")

RECURSIVE query_string_parts_from(_, _, _, _, _)
\* query_string_parts of the resolutions r..=h3_resolution, in this order
query_string_parts_from(ts, q, r, h3_resolution, queryable_h3indexes) ==
    IF r > h3_resolution THEN <<>>
    ELSE (IF r \in DOMAIN queryable_h3indexes
          THEN <<query_string_part(ts, q, r, h3_resolution, queryable_h3indexes[r])>>
          ELSE <<>>)
         \o query_string_parts_from(ts, q, r + 1, h3_resolution, queryable_h3indexes)

RECURSIVE join(_, _)
\* itertools::join
join(parts, sep) ==
    IF parts = <<>> THEN <<>>
    ELSE IF Len(parts) = 1 THEN parts[1]
    ELSE parts[1] \o <<sep>> \o join(Tail(parts), sep)

\* TableSet::build_select_query
build_select_query(ts, h3s, q) ==
    IF ~validate(q).ok THEN validate(q)
    ELSE IF h3s = <<>> THEN Err(<<"EmptyIndexes">>)
    ELSE IF ~check_index_valid(Index_from(h3s[1])).ok
         THEN check_index_valid(Index_from(h3s[1]))
    ELSE LET h3_resolution == Index_resolution(Index_from(h3s[1]))
             queryable_h3indexes == collect_queryable_h3indexes(ts, h3s, h3_resolution)
         IN IF ~queryable_h3indexes.ok THEN queryable_h3indexes
            ELSE IF DOMAIN queryable_h3indexes.val = {} THEN Err(<<"NoQueryableTables">>)
            ELSE Ok(join(query_string_parts_from(ts, q, H3_MIN_RESOLUTION, h3_resolution,
                                                 queryable_h3indexes.val),
                         UNION_ALL))

\* --------------------------------------- specification: build_select_query

PlannerColumns == [c \in {STR_h3index, <<"v">>} |-> "UInt32"]

TableSetInputs ==
    [basename : {STR_water},
     compacted_h3_resolutions : SUBSET PlannerResolutions,
     base_h3_resolutions : SUBSET PlannerResolutions,
     columns : {PlannerColumns}]

H3IndexInputs == SeqsUpTo(ValidCells \cup {InvalidIndex}, MaxCells)

\* templates with both placeholders, with one of them, with none
TemplateInputs ==
    { << Text("select h3index from "), PLACEHOLDER_table,
         Text(" where h3index in "), PLACEHOLDER_h3indexes >>,
      << Text("select h3index from "), PLACEHOLDER_table >>,
      << Text("select 1 where h3index in "), PLACEHOLDER_h3indexes,
         Text(" from <[table]") >>,
      << Text("select 1") >> }

QueryInputs == {AutoGenerated} \cup { TemplatedSelect(s) : s \in TemplateInputs }

InitPlanner ==
    /\ tableset \in TableSetInputs
    /\ h3indexes \in H3IndexInputs
    /\ query \in QueryInputs
    /\ query_result = None
    /\ AwIdle /\ RsIdle /\ CodecIdle /\ DiscIdle /\ WinIdle

BuildSelectQuery ==
    /\ query_result = None
    /\ query_result' = Some(build_select_query(tableset, h3indexes, query))
    /\ UNCHANGED <<tableset, h3indexes, query, awVars, rsVars, codecVars, discVars, winVars>>

NextPlanner == BuildSelectQuery

SpecPlanner == InitPlanner /\ [][NextPlanner]_vars

\* the call returned the error e
Failed(e) == query_result = Some(Err(e))
\* the call returned a query string
Built == IsSome(query_result) /\ Unwrap(query_result).ok
Sql == Unwrap(query_result).val

\* the resolution of the cells, taken from the first one
TargetResolution == Len(h3indexes[1].digits)

\* (base_h3_resolutions \cup compacted_h3_resolutions) \cap 0..R
Reachable ==
    (tableset.base_h3_resolutions \cup tableset.compacted_h3_resolutions)
        \cap H3_MIN_RESOLUTION..TargetResolution

\* the k-th resolution of Reachable in ascending order
KthReachable(k) == CHOOSE r \in Reachable : Cardinality({ x \in Reachable : x < r }) = k - 1

\* { parent(c, r) : c \in cells }
ParentsAt(r) ==
    { [valid |-> TRUE, digits |-> SubSeq(h3indexes[i].digits, 1, r)] : i \in 1..Len(h3indexes) }

\* the positions of ' union all ' in the query string, and the select that
\* the token at position i belongs to
Separators == { i \in 1..Len(Sql) : Sql[i] = UNION_ALL }
SelectOf(i) == Cardinality({ j \in Separators : j < i }) + 1

\* the resolution in a table name <basename>_NN_<kind>
ResolutionInName(name) ==
    LET k == IF SubSeq(name, Len(name) - Len(STR_base) + 1, Len(name)) = STR_base
             THEN Len(STR_base) ELSE Len(STR_compacted)
    IN 10 * DigitValue(name[Len(name) - k - 2]) + DigitValue(name[Len(name) - k - 1])

\* C8: when build_select_query succeeds, the query string is one select for
\* each resolution of (base \cup compacted) \cap 0..R and no other, the selects
\* are in strictly ascending order of resolution and are joined by
\* ' union all ', and the select of resolution r reads a table of resolution r
\* and filters on exactly { parent(c, r) : c \in cells }.
C8_PlannerCompleteness ==
    Built =>
        /\ Cardinality(Separators) + 1 = Cardinality(Reachable)
        /\ \A i \in Separators :
              i > 1 /\ i < Len(Sql) /\ (i - 1) \notin Separators
        /\ \A k \in 1..Cardinality(Reachable) :
              /\ \E i \in 1..Len(Sql) : SelectOf(i) = k /\ Sql[i].t = "table"
              /\ \E i \in 1..Len(Sql) : SelectOf(i) = k /\ Sql[i].t = "array"
        /\ \A i \in 1..Len(Sql) :
              /\ Sql[i].t = "table" =>
                    ResolutionInName(Sql[i].name) = KthReachable(SelectOf(i))
              /\ Sql[i].t = "array" =>
                    Sql[i].h3indexes = ParentsAt(KthReachable(SelectOf(i)))

\* a query string of three selects, from two cells that have the same parent
\* at the two coarser resolutions
C8_Witness ==
    /\ Built
    /\ Cardinality(Separators) = 2
    /\ Len(h3indexes) = 2
    /\ h3indexes[1] # h3indexes[2]
    /\ ParentsAt(1) # ParentsAt(2)
    /\ Cardinality(ParentsAt(1)) = 1

\* both placeholders are in the template
HasBoth(s) ==
    /\ \E i \in 1..Len(s) : s[i].text = "<[table]>"
    /\ \E i \in 1..Len(s) : s[i].text = "<[h3indexes]>"

\* C9: validate returns Ok for AutoGenerated, and for TemplatedSelect(s)
\* exactly when s holds both placeholders; otherwise it returns
\* MissingQueryPlaceholder naming a placeholder that s lacks, '<[table]>' when
\* s lacks both; build_select_query returns that error whatever the cells
\* are, and returns no such error when validate returns Ok.
C9_TemplateValidation ==
    IsSome(query_result) =>
        /\ query.kind = "AutoGenerated" => validate(query) = Ok("unit")
        /\ query.kind = "TemplatedSelect" =>
              /\ validate(query).ok <=> HasBoth(query.s)
              /\ ~validate(query).ok =>
                    /\ validate(query).err[1] = "MissingQueryPlaceholder"
                    /\ \A i \in 1..Len(query.s) : query.s[i].text # validate(query).err[2]
                    /\ (\A i \in 1..Len(query.s) : query.s[i].text # "<[table]>")
                          => validate(query).err[2] = "<[table]>"
        /\ ~validate(query).ok => Unwrap(query_result) = validate(query)
        /\ validate(query).ok =>
              (Unwrap(query_result).ok
                  \/ Unwrap(query_result).err \in
                        {<<"EmptyIndexes">>, <<"InvalidH3Index">>, <<"MixedResolutions">>,
                         <<"NoQueryableTables">>})

\* a template without either placeholder, given with an invalid cell, is
\* reported as lacking '<[table]>'
C9_Witness ==
    /\ Failed(<<"MissingQueryPlaceholder", "<[table]>">>)
    /\ query.kind = "TemplatedSelect"
    /\ ~contains(query.s, PLACEHOLDER_h3indexes)
    /\ Len(h3indexes) >= 1
    /\ ~h3indexes[1].valid

\* the query is AutoGenerated or holds both placeholders
ValidQuery == query.kind = "AutoGenerated" \/ HasBoth(query.s)

\* C10: with a valid query, build_select_query returns MixedResolutions for a
\* list of valid cells in which some cell's resolution differs from that of
\* the first cell, whatever the tableset is, and EmptyIndexes for the empty
\* list; neither call returns a query string.
C10_UniformResolution ==
    (IsSome(query_result) /\ ValidQuery) =>
        /\ h3indexes = <<>> => Failed(<<"EmptyIndexes">>)
        /\ ( /\ h3indexes # <<>>
             /\ \A i \in 1..Len(h3indexes) : h3indexes[i].valid
             /\ \E i \in 1..Len(h3indexes) :
                   Len(h3indexes[i].digits) # Len(h3indexes[1].digits) )
               => Failed(<<"MixedResolutions">>)

\* cells of two resolutions given for a tableset with no table at all
C10_Witness ==
    /\ Failed(<<"MixedResolutions">>)
    /\ tableset.base_h3_resolutions = {}
    /\ tableset.compacted_h3_resolutions = {}
    /\ Len(h3indexes) = 2

\* <basename>_NN_<kind>, NN being the resolution in two decimal digits
TwoDigits(r) == <<DigitChars[(r \div 10) + 1], DigitChars[(r % 10) + 1]>>
NameOf(b, r, kind) == b \o <<"_">> \o TwoDigits(r) \o <<"_">> \o kind

\* C14: when build_select_query succeeds for cells of resolution R, the select
\* of resolution R reads <basename>_RR_base and the select of every resolution
\* r < R reads <basename>_rr_compacted; no select reads a base table at r < R
\* or a compacted table at R.
C14_TableChoice ==
    Built =>
        \A i \in 1..Len(Sql) :
            Sql[i].t = "table" =>
                LET r == KthReachable(SelectOf(i)) IN
                Sql[i].name = NameOf(tableset.basename, r,
                                     IF r = TargetResolution THEN STR_base
                                     ELSE STR_compacted)

\* a query string with a select of the target resolution and a select of a
\* coarser resolution at which the tableset has a base table
C14_Witness ==
    /\ Built
    /\ TargetResolution \in Reachable
    /\ \E r \in Reachable : r < TargetResolution /\ r \in tableset.base_h3_resolutions
    /\ \E i \in 1..Len(Sql) : Sql[i].name = NameOf(tableset.basename, 0, STR_compacted)

RECURSIVE SetToSeq(_)
\* the elements of a finite set in some order
SetToSeq(S) ==
    IF S = {} THEN <<>>
    ELSE LET x == CHOOSE y \in S : TRUE IN <<x>> \o SetToSeq(S \ {x})

\* the names of the tables of a tableset
TableNamesOf(ts) == { to_table_name(t) : t \in tables(ts) }

\* find_tablesets returns the tableset (its columns aside) for the names of
\* its tables
FoundByFindTablesets(ts) ==
    LET found == find_tablesets(SetToSeq(TableNamesOf(ts))) IN
    /\ ts.basename \in DOMAIN found
    /\ found[ts.basename].base_h3_resolutions = ts.base_h3_resolutions
    /\ found[ts.basename].compacted_h3_resolutions = ts.compacted_h3_resolutions

\* C16: for a tableset that find_tablesets produces and cells for which
\* build_select_query succeeds, every table name in the query string is the
\* name of a table of the tableset: a compacted table is read only at a
\* resolution of compacted_h3_resolutions and a base table only at a
\* resolution of base_h3_resolutions.
C16_ReferencedTablesExist ==
    (Built /\ FoundByFindTablesets(tableset)) =>
        \A i \in 1..Len(Sql) :
            Sql[i].t = "table" => Sql[i].name \in TableNamesOf(tableset)

\* ------------------------------------ SlidingH3Window, ClickhouseConnection

\* coarse cells of one sliding window
MaxWindows == 2

RECURSIVE Index_get_children(_, _), get_children_from(_, _, _)
\* Index::get_children(r): the descendants of the index at resolution r, in
\* the order of their child digits
Index_get_children(index, r) ==
    IF Index_resolution(index) > r THEN <<>>
    ELSE IF Index_resolution(index) = r THEN <<index>>
    ELSE get_children_from(index, H3_MIN_RESOLUTION, r)
\* the descendants below the children of digit k and up
get_children_from(index, k, r) ==
    IF k \notin ChildDigits THEN <<>>
    ELSE Index_get_children([index EXCEPT !.digits = Append(@, k)], r)
            \o get_children_from(index, k + 1, r)

\* window_polygon.intersects(&ci.to_polygon()): a window polygon is the set
\* of the cells of the target resolution whose polygon it intersects
Polygon_intersects(window_polygon, ci) == ci \in window_polygon

\* SlidingH3Window::next_window: the next coarse cell of the window, if any;
\* the window moves on by one
next_window(w) ==
    IF w.iter_pos < Len(w.window_indexes)
    THEN [window |-> [w EXCEPT !.iter_pos = w.iter_pos + 1],
          val |-> Some(w.window_indexes[w.iter_pos + 1])]
    ELSE [window |-> w, val |-> None]

\* Into<Option<String>> for TableSetQuery
TableSetQuery_into(q) == IF q.kind = "AutoGenerated" THEN None ELSE Some(q.s)

\* ch_to_pyerr: any error of the database client
ClickhouseError == Err(<<"clickhouse error">>)

\* RuntimedPool::get_client; up says whether the pool hands out a client
get_client(up) == IF up THEN Ok("ClientHandle") ELSE ClickhouseError

\* query_returns_rows, given what the database answers to the query
query_returns_rows(answer) ==
    IF answer = "rows" THEN Ok(TRUE)
    ELSE IF answer = "empty" THEN Ok(FALSE)
    ELSE ClickhouseError

\* the batch of a window whose query succeeds (its rows are not modelled)
WindowColumnData == [c \in ColNames |-> 1]

\* query_all_with_uncompacting, given what the database answers to the query
query_all_with_uncompacting(answer, h3index_set) ==
    IF answer = "rows" THEN Ok(WindowColumnData) ELSE ClickhouseError

\* a query handed to the database
Submitted(kind, window_h3index, sql, h3index_set) ==
    [kind |-> kind, window_h3index |-> window_h3index,
     query_string |-> sql, h3index_set |-> h3index_set]

\* the TableSetQuery of the existence query
has_data_tablesetquery(querystring_template) ==
    IF IsSome(querystring_template)
    THEN TemplatedSelect(Unwrap(querystring_template) \o <<Text(" limit 1")>>)
    ELSE TemplatedSelect(<< Text("select h3index from "), PLACEHOLDER_table,
                            Text(" where h3index in "), PLACEHOLDER_h3indexes,
                            Text(" limit 1") >>)

\* has_data that answers true whenever the existence query succeeds
has_data_any_answer(self, ts, h3index, querystring_template) ==
    LET index == Index_from(h3index) IN
    IF ~check_index_valid(index).ok
    THEN [res |-> check_index_valid(index), submitted |-> <<>>]
    ELSE LET tablesetquery == has_data_tablesetquery(querystring_template)
             sql == build_select_query(ts, <<Index_h3index(index)>>, tablesetquery)
         IN IF ~sql.ok THEN [res |-> sql, submitted |-> <<>>]
            ELSE IF ~get_client(self[h3index].has_data_client).ok
                 THEN [res |-> ClickhouseError, submitted |-> <<>>]
            ELSE [res |-> IF query_returns_rows(self[h3index].exists).ok
                          THEN Ok(TRUE) ELSE ClickhouseError,
                  submitted |-> <<Submitted("has_data", h3index, sql.val, {})>>]

\* ClickhouseConnection::has_data: its result and the query it submitted
has_data(self, ts, h3index, querystring_template) ==
    LET index == Index_from(h3index) IN
    IF ~check_index_valid(index).ok
    THEN [res |-> check_index_valid(index), submitted |-> <<>>]
    ELSE LET tablesetquery == has_data_tablesetquery(querystring_template)
             sql == build_select_query(ts, <<Index_h3index(index)>>, tablesetquery)
         IN IF ~sql.ok THEN [res |-> sql, submitted |-> <<>>]
            ELSE IF ~get_client(self[h3index].has_data_client).ok
                 THEN [res |-> ClickhouseError, submitted |-> <<>>]
            ELSE [res |-> query_returns_rows(self[h3index].exists),
                  submitted |-> <<Submitted("has_data", h3index, sql.val, {})>>]

\* the children of every resolution step, whether inside the polygon or not
child_indexes_unfiltered(w, window_h3index) ==
    Index_get_children(Index_from(window_h3index), w.target_h3_resolution)

\* child_indexes: the children of the window cell at the target resolution
\* whose polygon intersects the window polygon
child_indexes(w, window_h3index) ==
    SelectSeq(Index_get_children(Index_from(window_h3index), w.target_h3_resolution),
              LAMBDA ci : Polygon_intersects(w.window_polygon, ci))

\* the ResultSet of a window
WindowResultSet(h3indexes_queried, window_h3index, fetched) ==
    [h3indexes_queried |-> h3indexes_queried,
     window_h3index |-> window_h3index,
     column_data |-> fetched]

RECURSIVE fetch_next_window_returns_on_skip(_, _, _, _)
\* fetch_next_window that returns None at a window it skips
fetch_next_window_returns_on_skip(self, w, ts, submitted) ==
    LET n == next_window(w) IN
    IF ~IsSome(n.val)
    THEN [window |-> n.window, res |-> Ok(None), submitted |-> submitted]
    ELSE
    LET window_h3index == Unwrap(n.val)
        h == has_data(self, ts, window_h3index, TableSetQuery_into(n.window.query))
        sub1 == submitted \o h.submitted
    IN
    IF ~h.res.ok THEN [window |-> n.window, res |-> h.res, submitted |-> sub1]
    ELSE IF ~h.res.val
         THEN [window |-> n.window, res |-> Ok(None), submitted |-> sub1]
    ELSE
    LET ci == child_indexes(n.window, window_h3index) IN
    IF ci = <<>>
    THEN [window |-> n.window, res |-> Ok(None), submitted |-> sub1]
    ELSE
    LET sql == build_select_query(ts, ci, n.window.query) IN
    IF ~sql.ok THEN [window |-> n.window, res |-> sql, submitted |-> sub1]
    ELSE IF ~get_client(self[window_h3index].fetch_client).ok
         THEN [window |-> n.window, res |-> ClickhouseError, submitted |-> sub1]
    ELSE
    LET h3index_set == { ci[i] : i \in 1..Len(ci) }
        fetched == query_all_with_uncompacting(self[window_h3index].fetch, h3index_set)
        sub2 == Append(sub1, Submitted("fetch", window_h3index, sql.val, h3index_set))
    IN
    IF ~fetched.ok THEN [window |-> n.window, res |-> fetched, submitted |-> sub2]
    ELSE [window |-> n.window,
          res |-> Ok(Some(WindowResultSet(Some(ci), Some(window_h3index), fetched.val))),
          submitted |-> sub2]

RECURSIVE fetch_next_window(_, _, _, _)
\* ClickhouseConnection::fetch_next_window on the connection self (what the
\* database answers for each coarse cell): the window after the call, the
\* result of the call, and the queries submitted so far in the call.  One
\* unfolding is one turn of the while loop.
fetch_next_window(self, w, ts, submitted) ==
    LET n == next_window(w) IN
    IF ~IsSome(n.val)
    THEN [window |-> n.window, res |-> Ok(None), submitted |-> submitted]
    ELSE
    LET window_h3index == Unwrap(n.val)
        h == has_data(self, ts, window_h3index, TableSetQuery_into(n.window.query))
        sub1 == submitted \o h.submitted
    IN
    IF ~h.res.ok THEN [window |-> n.window, res |-> h.res, submitted |-> sub1]
    ELSE IF ~h.res.val THEN fetch_next_window(self, n.window, ts, sub1)
    ELSE
    LET ci == child_indexes(n.window, window_h3index) IN
    IF ci = <<>> THEN fetch_next_window(self, n.window, ts, sub1)
    ELSE
    LET sql == build_select_query(ts, ci, n.window.query) IN
    IF ~sql.ok THEN [window |-> n.window, res |-> sql, submitted |-> sub1]
    ELSE IF ~get_client(self[window_h3index].fetch_client).ok
         THEN [window |-> n.window, res |-> ClickhouseError, submitted |-> sub1]
    ELSE
    LET h3index_set == { ci[i] : i \in 1..Len(ci) }
        fetched == query_all_with_uncompacting(self[window_h3index].fetch, h3index_set)
        sub2 == Append(sub1, Submitted("fetch", window_h3index, sql.val, h3index_set))
    IN
    IF ~fetched.ok THEN [window |-> n.window, res |-> fetched, submitted |-> sub2]
    ELSE [window |-> n.window,
          res |-> Ok(Some(WindowResultSet(Some(ci), Some(window_h3index), fetched.val))),
          submitted |-> sub2]

\* ------------------------------------------ specification: fetch_next_window

\* the coarse cells of a window: distinct cells of one resolution, at most
\* the target resolution
WindowIndexInputs ==
    { s \in SeqsUpTo({ c \in ValidCells : Index_resolution(c) >= 1 }, MaxWindows) :
        /\ \A i, j \in 1..Len(s) : i # j => s[i] # s[j]
        /\ \A i, j \in 1..Len(s) : Index_resolution(s[i]) = Index_resolution(s[j]) }

\* the cells of the finest resolution
TargetCells == { c \in ValidCells : \A d \in ValidCells : Index_resolution(d) <= Index_resolution(c) }

\* window polygons: over all cells, over one cell
WindowPolygonInputs ==
    LET one == CHOOSE c \in TargetCells : \A i \in 1..Len(c.digits) : c.digits[i] = 0 IN
    { TargetCells, {one} }

\* the query of a window: generated, a template with both placeholders, a
\* template without '<[h3indexes]>'
WindowQueryInputs ==
    { AutoGenerated,
      TemplatedSelect(<< Text("select h3index from "), PLACEHOLDER_table,
                         Text(" where h3index in "), PLACEHOLDER_h3indexes >>),
      TemplatedSelect(<< Text("select h3index from "), PLACEHOLDER_table >>) }

WindowInputs ==
    [window_indexes : WindowIndexInputs,
     iter_pos : {0},
     query : WindowQueryInputs,
     target_h3_resolution : { Index_resolution(c) : c \in TargetCells },
     window_polygon : WindowPolygonInputs]

\* tablesets: with a table of the finest resolution only, with tables of
\* every resolution
WindowTableSetInputs ==
    { ts \in TableSetInputs :
        \/ /\ ts.base_h3_resolutions = { Index_resolution(c) : c \in TargetCells }
           /\ ts.compacted_h3_resolutions = {}
        \/ /\ ts.base_h3_resolutions = PlannerResolutions
           /\ ts.compacted_h3_resolutions = PlannerResolutions }

\* a template is given with the tableset of every resolution
WindowPlanInputs ==
    { p \in WindowTableSetInputs \X WindowQueryInputs :
        p[2] = AutoGenerated \/ p[1].base_h3_resolutions = PlannerResolutions }

\* what the database does with the queries of one coarse cell: the pool may
\* fail to hand out a client, the existence query may fail or return rows or
\* none, and so for the window's query
CellAnswers ==
    { [has_data_client |-> FALSE, exists |-> "error", fetch_client |-> FALSE, fetch |-> "error"],
      [has_data_client |-> TRUE, exists |-> "error", fetch_client |-> FALSE, fetch |-> "error"],
      [has_data_client |-> TRUE, exists |-> "empty", fetch_client |-> TRUE, fetch |-> "rows"],
      [has_data_client |-> TRUE, exists |-> "rows", fetch_client |-> FALSE, fetch |-> "error"],
      [has_data_client |-> TRUE, exists |-> "rows", fetch_client |-> TRUE, fetch |-> "error"],
      [has_data_client |-> TRUE, exists |-> "rows", fetch_client |-> TRUE, fetch |-> "rows"] }

InitWindow ==
    /\ sliding_h3_window \in WindowInputs
    /\ database \in [ { sliding_h3_window.window_indexes[i] :
                          i \in 1..Len(sliding_h3_window.window_indexes) } -> CellAnswers ]
    /\ tableset \in WindowTableSetInputs
    /\ <<tableset, sliding_h3_window.query>> \in WindowPlanInputs
    /\ fetch_log = <<>>
    /\ h3indexes = Unused /\ query = Unused /\ query_result = Unused
    /\ AwIdle /\ RsIdle /\ CodecIdle /\ DiscIdle

FetchNextWindow ==
    /\ Len(fetch_log) < MaxCalls
    /\ LET r == fetch_next_window(database, sliding_h3_window, tableset, <<>>) IN
       /\ sliding_h3_window' = r.window
       /\ fetch_log' = Append(fetch_log,
                          [res |-> r.res,
                           from |-> sliding_h3_window.iter_pos,
                           to |-> r.window.iter_pos,
                           submitted |-> r.submitted])
    /\ UNCHANGED <<database, planVars, awVars, rsVars, codecVars, discVars>>

NextWindow == FetchNextWindow

SpecWindow == InitWindow /\ [][NextWindow]_vars

\* the coarse cells of the window, in the order of the window
Queue == sliding_h3_window.window_indexes
\* the positions in Queue of the coarse cells that call e took
Taken(e) == (e.from + 1)..e.to
\* call e returned a ResultSet
Returned(e) == e.res.ok /\ IsSome(e.res.val)
ResultSetOf(e) == Unwrap(e.res.val)
\* call e returned None
ReturnedNone(e) == e.res.ok /\ ~IsSome(e.res.val)
\* call e returned a ResultSet for the coarse cell c
ReturnedFor(e, c) == Returned(e) /\ ResultSetOf(e).window_h3index = Some(c)

\* the existence query of coarse cell c can be built and is answered
ExistenceAnswered(c) ==
    /\ build_select_query(tableset, <<c>>,
           has_data_tablesetquery(TableSetQuery_into(sliding_h3_window.query))).ok
    /\ database[c].has_data_client
    /\ database[c].exists \in {"rows", "empty"}
\* the existence query of c returns false, returns true, fails
HasNoData(c) == ExistenceAnswered(c) /\ database[c].exists = "empty"
HasData(c) == ExistenceAnswered(c) /\ database[c].exists = "rows"
ExistenceFails(c) == ~ExistenceAnswered(c)
\* the main query of c fails
FetchFails(c) == ~(database[c].fetch_client /\ database[c].fetch = "rows")

\* the children of c at the target resolution whose polygon intersects the
\* window polygon
IntersectingChildren(c) ==
    { x \in ValidCells :
        /\ Len(x.digits) = sliding_h3_window.target_h3_resolution
        /\ Len(c.digits) <= Len(x.digits)
        /\ SubSeq(x.digits, 1, Len(c.digits)) = c.digits
        /\ x \in sliding_h3_window.window_polygon }

\* the coarse cell at position p has data and intersecting children
Candidate(p) == HasData(Queue[p]) /\ IntersectingChildren(Queue[p]) # {}

Min(S) == CHOOSE x \in S : \A y \in S : x <= y

\* some call submitted the window's query for coarse cell c
FetchSubmittedFor(c) ==
    \E i \in 1..Len(fetch_log) :
        \E k \in 1..Len(fetch_log[i].submitted) :
            /\ fetch_log[i].submitted[k].kind = "fetch"
            /\ fetch_log[i].submitted[k].window_h3index = c

\* C11 as claimed: a coarse cell whose existence query returns false gets no
\* ResultSet and no main query; the call that took it returns the ResultSet
\* of the first later coarse cell that has data and intersecting children, or
\* None when there is no such cell.
C11_SkipWithoutData ==
    \A i \in 1..Len(fetch_log) :
        \A p \in Taken(fetch_log[i]) :
            HasNoData(Queue[p]) =>
                /\ ~FetchSubmittedFor(Queue[p])
                /\ \A j \in 1..Len(fetch_log) : ~ReturnedFor(fetch_log[j], Queue[p])
                /\ LET later == { q \in (p + 1)..Len(Queue) : Candidate(q) } IN
                   IF later = {} THEN ReturnedNone(fetch_log[i])
                   ELSE ReturnedFor(fetch_log[i], Queue[Min(later)])

\* C11 as amended: a coarse cell whose existence query returns false gets no
\* ResultSet and no main query; the call that took it goes on to the first
\* later coarse cell whose existence query fails or that has data and
\* intersecting children: it returns an error when the existence query or
\* the main query of that cell fails, the ResultSet of that cell otherwise,
\* and None when there is no such cell.
C11_SkipWithoutDataUnlessError ==
    \A i \in 1..Len(fetch_log) :
        \A p \in Taken(fetch_log[i]) :
            HasNoData(Queue[p]) =>
                /\ ~FetchSubmittedFor(Queue[p])
                /\ \A j \in 1..Len(fetch_log) : ~ReturnedFor(fetch_log[j], Queue[p])
                /\ LET stops == { q \in (p + 1)..Len(Queue) :
                                    ExistenceFails(Queue[q]) \/ Candidate(q) }
                   IN
                   IF stops = {}
                   THEN ReturnedNone(fetch_log[i]) /\ fetch_log[i].to = Len(Queue)
                   ELSE /\ fetch_log[i].to = Min(stops)
                        /\ IF \/ ExistenceFails(Queue[Min(stops)])
                              \/ FetchFails(Queue[Min(stops)])
                           THEN ~fetch_log[i].res.ok
                           ELSE ReturnedFor(fetch_log[i], Queue[Min(stops)])

\* one call skipped a coarse cell without data and returned the ResultSet of
\* the coarse cell after it
C11_Witness ==
    \E i \in 1..Len(fetch_log) :
        /\ fetch_log[i].to = fetch_log[i].from + 2
        /\ HasNoData(Queue[fetch_log[i].from + 1])
        /\ ReturnedFor(fetch_log[i], Queue[fetch_log[i].to])

\* C12: when the existence query of the coarse cell a call stops at fails,
\* the call returns an error, and no later call on the window returns a
\* ResultSet.
C12_PrefetchFailureAborts ==
    \A i \in 1..Len(fetch_log) :
        (fetch_log[i].to > fetch_log[i].from /\ ExistenceFails(Queue[fetch_log[i].to])) =>
            /\ ~fetch_log[i].res.ok
            /\ \A j \in (i + 1)..Len(fetch_log) : ~Returned(fetch_log[j])

\* the elements of a sequence
Elements(s) == { s[i] : i \in 1..Len(s) }

\* C13: a ResultSet that fetch_next_window returns has window_h3index =
\* Some(c) for the coarse cell c the call took last, and h3indexes_queried =
\* Some(children) where children is not empty and lists, once each, the
\* children of c at the target resolution whose polygon intersects the window
\* polygon; the one main query of the call was built from that list and was
\* given the set of its elements for uncompacting.
C13_WindowMetadata ==
    \A i \in 1..Len(fetch_log) :
        Returned(fetch_log[i]) =>
            LET e == fetch_log[i]
                rs == ResultSetOf(e)
            IN
            /\ e.to > e.from
            /\ rs.window_h3index = Some(Queue[e.to])
            /\ IsSome(rs.h3indexes_queried)
            /\ LET children == Unwrap(rs.h3indexes_queried)
                   fetches == { k \in 1..Len(e.submitted) : e.submitted[k].kind = "fetch" }
               IN
               /\ children # <<>>
               /\ Cardinality(Elements(children)) = Len(children)
               /\ Elements(children) = IntersectingChildren(Queue[e.to])
               /\ fetches = {Len(e.submitted)}
               /\ e.submitted[Len(e.submitted)].window_h3index = Queue[e.to]
               /\ e.submitted[Len(e.submitted)].h3index_set = Elements(children)
               /\ Ok(e.submitted[Len(e.submitted)].query_string)
                     = build_select_query(tableset, children, sliding_h3_window.query)

\* a ResultSet for a coarse cell of which one child is inside the window
\* polygon and another is not
C13_Witness ==
    \E i \in 1..Len(fetch_log) :
        /\ Returned(fetch_log[i])
        /\ Len(Unwrap(ResultSetOf(fetch_log[i]).h3indexes_queried)) = 1
        /\ Len(Queue[fetch_log[i].to].digits) < sliding_h3_window.target_h3_resolution

\* C15: over the calls made on one window, every call starts at the coarse
\* cell after the last one taken, so no coarse cell is taken twice; the
\* coarse cells of the ResultSets returned are in the order of the window;
\* a call made after as many calls as the window has coarse cells returns
\* None, and once a call has returned None every later call returns None.
C15_ProgressAndOrder ==
    /\ \A i \in 1..Len(fetch_log) :
          /\ fetch_log[i].from = (IF i = 1 THEN 0 ELSE fetch_log[i - 1].to)
          /\ fetch_log[i].from <= fetch_log[i].to
          /\ fetch_log[i].to <= Len(Queue)
          /\ Returned(fetch_log[i]) => ReturnedFor(fetch_log[i], Queue[fetch_log[i].to])
          /\ ~ReturnedNone(fetch_log[i]) => fetch_log[i].from < fetch_log[i].to
          /\ i > Len(Queue) => ReturnedNone(fetch_log[i])
    /\ \A i, j \in 1..Len(fetch_log) :
          /\ (i < j /\ Returned(fetch_log[i]) /\ Returned(fetch_log[j]))
                => fetch_log[i].to < fetch_log[j].to
          /\ (i < j /\ ReturnedNone(fetch_log[i])) => ReturnedNone(fetch_log[j])
    /\ Len(fetch_log) >= 1 =>
          sliding_h3_window.iter_pos = fetch_log[Len(fetch_log)].to

\* two ResultSets were returned, the second after a coarse cell was skipped,
\* then None twice
C15_Witness ==
    /\ Len(fetch_log) >= 4
    /\ Returned(fetch_log[1])
    /\ Returned(fetch_log[2])
    /\ ReturnedNone(fetch_log[3])
    /\ ReturnedNone(fetch_log[4])

====
